---- MODULE Spec2Model ----
(***************************************************************************)
(* State-machine model of proxmox/session.go: the Session (credentials,    *)
(* default headers, HTTP client), the process-wide Debug flag, the header  *)
(* validator and secure transport, request construction and execution      *)
(* (NewRequest, Request, Do, RequestJSON, the verb helpers), Login, and    *)
(* the response decoders.                                                  *)
(*                                                                         *)
(* Strings that the code inspects character by character (header keys and  *)
(* values, credentials, status lines, error texts) are sequences of        *)
(* character codes.  Response bodies are only ever read whole and parsed,  *)
(* so they are TLA+ strings and json.Unmarshal is the table Unmarshal.     *)
(***************************************************************************)
EXTENDS Integers, Sequences, FiniteSets, TLC

(***************************************************************************)
(* Bounds of the model.                                                    *)
(***************************************************************************)
\* a caller reads the body of a returned response while fewer than MaxReads
\* reads of it have been made
MaxReads == 2

(***************************************************************************)
(* Character-level strings.                                                *)
(***************************************************************************)
\* ""
Empty == << >>

\* the first code that is not a control character (session.go:59, r < 32)
CtrlLimit == 32
\* DEL (session.go:59, r == 127)
DEL == 127
\* the bounds of a successful status code (session.go:277)
StatusMin == 200
StatusMax == 299

\* "PVEAPIToken="
PVEAPIToken == <<80,86,69,65,80,73,84,111,107,101,110,61>>
\* "PVEAuthCookie="
PVEAuthCookie == <<80,86,69,65,117,116,104,67,111,111,107,105,101,61>>
\* "application/json"
ApplicationJSON == <<97,112,112,108,105,99,97,116,105,111,110,47,106,115,111,110>>
\* "application/x-www-form-urlencoded"
FormURLEncoded ==
  <<97,112,112,108,105,99,97,116,105,111,110,47,120,45,119,119,119,45,
    102,111,114,109,45,117,114,108,101,110,99,111,100,101,100>>

\* The characters of each header name of the model.  "X-Q" stands for a
\* caller's header name that itself holds a control character and a quote:
\* X, LF, ".
Chars(k) ==
  CASE k = "Authorization"       -> <<65,117,116,104,111,114,105,122,97,116,105,111,110>>
    [] k = "CSRFPreventionToken" -> <<67,83,82,70,80,114,101,118,101,110,116,105,111,110,
                                      84,111,107,101,110>>
    [] k = "Accept"              -> <<65,99,99,101,112,116>>
    [] k = "Content-Type"        -> <<67,111,110,116,101,110,116,45,84,121,112,101>>
    [] k = "X-A"                 -> <<88,45,65>>
    [] k = "X-B"                 -> <<88,45,66>>
    [] k = "X-Q"                 -> <<88,10,34>>

RECURSIVE Concat(_)
\* the concatenation of a sequence of strings
Concat(ss) == IF ss = << >> THEN << >> ELSE Head(ss) \o Concat(Tail(ss))

\* s occurs in text as a contiguous substring (strings.Contains)
Contains(text, s) ==
  \E i \in 0..(Len(text) - Len(s)) : SubSeq(text, i + 1, i + Len(s)) = s

\* "0123456789abcdef"
HexDigits == <<48,49,50,51,52,53,54,55,56,57,97,98,99,100,101,102>>

\* strconv.Quote on one ASCII character, as %q formats it
QuoteChar(c) ==
  CASE c = 34 -> <<92,34>>
    [] c = 92 -> <<92,92>>
    [] c = 7  -> <<92,97>>
    [] c = 8  -> <<92,98>>
    [] c = 12 -> <<92,102>>
    [] c = 10 -> <<92,110>>
    [] c = 13 -> <<92,114>>
    [] c = 9  -> <<92,116>>
    [] c = 11 -> <<92,118>>
    [] OTHER  -> IF c < 32 \/ c = 127
                 THEN <<92,120, HexDigits[(c \div 16) + 1], HexDigits[(c % 16) + 1]>>
                 ELSE <<c>>

\* fmt's %q of an ASCII string: the string in double quotes, escaped
Quote(s) == <<34>> \o Concat([i \in 1..Len(s) |-> QuoteChar(s[i])]) \o <<34>>

(***************************************************************************)
(* Errors.  An error is its kind and its message; NoErr is the nil error.  *)
(***************************************************************************)
NoErr == [kind |-> "nil", text |-> Empty]

Err(kind, text) == [kind |-> kind, text |-> text]

(***************************************************************************)
(* validateHeader (session.go:55-66).  A header mapping is a function from *)
(* a set of header names to sequences of values.  Go ranges over a map in  *)
(* an unspecified order: order is the order of this call's iteration, a    *)
(* sequence holding every key of h once.                                   *)
(***************************************************************************)
\* the condition of session.go:59 on one character
InvalidRune(r) == r < CtrlLimit \/ r = DEL

\* session.go:57-59: some value of the list holds an invalid character
InvalidValues(values) ==
  \E i \in 1..Len(values) : \E j \in 1..Len(values[i]) : InvalidRune(values[i][j])

\* session.go:60, fmt.Errorf("value for key %q contains invalid characters", key)
ValueErrText(k) ==
  <<118,97,108,117,101,32,102,111,114,32,107,101,121,32>> \o Quote(Chars(k))
  \o <<32,99,111,110,116,97,105,110,115,32,105,110,118,97,108,105,100,32,
       99,104,97,114,97,99,116,101,114,115>>

RECURSIVE KeyOrders(_)
\* the sequences that hold every element of the set S once
KeyOrders(S) ==
  IF S = {} THEN {<< >>}
  ELSE UNION {{<<x>> \o p : p \in KeyOrders(S \ {x})} : x \in S}

\* the orders in which a range over h may visit its keys
Orders(h) == KeyOrders(DOMAIN h)

\* the position in order of the first key whose values are rejected, 0 if none
FirstInvalid(h, order) ==
  LET hit == {i \in 1..Len(order) : InvalidValues(h[order[i]])}
  IN  IF hit = {} THEN 0 ELSE CHOOSE i \in hit : \A j \in hit : i <= j

\* validateHeader with the rejected value quoted in the error as well
validateHeader_LeakValue(h, order) ==
  LET i == FirstInvalid(h, order)
  IN  IF i = 0 THEN NoErr
      ELSE Err("HeaderValidation",
               ValueErrText(order[i]) \o <<58,32>> \o Quote(Concat(h[order[i]])))

validateHeader(h, order) ==
  LET i == FirstInvalid(h, order)
  IN  IF i = 0 THEN NoErr
      ELSE Err("HeaderValidation", ValueErrText(order[i]))

(***************************************************************************)
(* fmt.Errorf(format) with no operands (session.go:278 passes resp.Status  *)
(* as the format).  A '%' at the end of the format prints "%!(NOVERB)",    *)
(* "%%" prints "%", and '%' before a verb character c prints               *)
(* "%!c(MISSING)".  Formats with flags or widths after '%' are not among   *)
(* the status lines of the model.                                          *)
(***************************************************************************)
RECURSIVE Errorf(_)
Errorf(format) ==
  IF format = << >> THEN << >>
  ELSE IF Head(format) # 37 THEN <<Head(format)>> \o Errorf(Tail(format))
  ELSE IF Len(format) = 1 THEN <<37,33,40,78,79,86,69,82,66,41>>
  ELSE IF format[2] = 37 THEN <<37>> \o Errorf(SubSeq(format, 3, Len(format)))
  ELSE <<37,33,format[2]>> \o <<40,77,73,83,83,73,78,71,41>>
       \o Errorf(SubSeq(format, 3, Len(format)))

(***************************************************************************)
(* JSON.  A decoded JSON value is a tagged record; an object's members are *)
(* a function from member names to values.  Unmarshal is encoding/json on  *)
(* the body texts of the model: the syntax check and the value.            *)
(***************************************************************************)
JNull == [k |-> "null"]
JNum(n) == [k |-> "num", n |-> n]
JStr(s) == [k |-> "str", s |-> s]
JObj(f) == [k |-> "obj", f |-> f]
JArr == [k |-> "arr"]
NoMembers == [m \in {} |-> JNull]

\* Ticket1, Csrf1, Ticket2, Csrf2 ("T1", "C1", "T2", "C2"): the tickets and
\* CSRF tokens the server issues
Ticket1 == <<84,49>>
Csrf1 == <<67,49>>
Ticket2 == <<84,50>>
Csrf2 == <<67,50>>

LoginBodies ==
  { "{\"data\":{\"ticket\":\"T1\",\"CSRFPreventionToken\":\"C1\"}}",
    "{\"data\":{\"ticket\":\"T2\",\"CSRFPreventionToken\":\"C2\"}}",
    "{\"data\":{\"NeedTFA\":1}}",
    "{\"data\":{\"CSRFPreventionToken\":\"C1\"}}",
    "{\"data\":{\"ticket\":\"T2\"}}",
    "{\"data\":{\"ticket\":5,\"CSRFPreventionToken\":\"C1\"}}",
    "{\"data\":\"x\"}",
    "{\"data\":null}" }

ResultBodies ==
  { "{\"data\":{\"result\":{\"x\":1}}}",
    "{\"data\":{\"result\":\"no\"}}",
    "{\"data\":{\"result\":null}}",
    "{\"data\":{}}",
    "{}",
    "null",
    "[1]",
    "<html>",
    "" }

Bodies == LoginBodies \cup ResultBodies

\* the JSON value of a body text; ok is FALSE when the text is not JSON
Unmarshal(text) ==
  CASE text = "{\"data\":{\"ticket\":\"T1\",\"CSRFPreventionToken\":\"C1\"}}" ->
         [ok |-> TRUE, v |-> JObj([data |-> JObj([ticket |-> JStr(Ticket1),
                                                  CSRFPreventionToken |-> JStr(Csrf1)])])]
    [] text = "{\"data\":{\"ticket\":\"T2\",\"CSRFPreventionToken\":\"C2\"}}" ->
         [ok |-> TRUE, v |-> JObj([data |-> JObj([ticket |-> JStr(Ticket2),
                                                  CSRFPreventionToken |-> JStr(Csrf2)])])]
    [] text = "{\"data\":{\"NeedTFA\":1}}" ->
         [ok |-> TRUE, v |-> JObj([data |-> JObj([NeedTFA |-> JNum(1)])])]
    [] text = "{\"data\":{\"CSRFPreventionToken\":\"C1\"}}" ->
         [ok |-> TRUE, v |-> JObj([data |-> JObj([CSRFPreventionToken |-> JStr(Csrf1)])])]
    [] text = "{\"data\":{\"ticket\":\"T2\"}}" ->
         [ok |-> TRUE, v |-> JObj([data |-> JObj([ticket |-> JStr(Ticket2)])])]
    [] text = "{\"data\":{\"ticket\":5,\"CSRFPreventionToken\":\"C1\"}}" ->
         [ok |-> TRUE, v |-> JObj([data |-> JObj([ticket |-> JNum(5),
                                                  CSRFPreventionToken |-> JStr(Csrf1)])])]
    [] text = "{\"data\":\"x\"}" ->
         [ok |-> TRUE, v |-> JObj([data |-> JStr(<<120>>)])]
    [] text = "{\"data\":null}" ->
         [ok |-> TRUE, v |-> JObj([data |-> JNull])]
    [] text = "{\"data\":{\"result\":{\"x\":1}}}" ->
         [ok |-> TRUE, v |-> JObj([data |-> JObj([result |-> JObj([x |-> JNum(1)])])])]
    [] text = "{\"data\":{\"result\":\"no\"}}" ->
         [ok |-> TRUE, v |-> JObj([data |-> JObj([result |-> JStr(<<110,111>>)])])]
    [] text = "{\"data\":{\"result\":null}}" ->
         [ok |-> TRUE, v |-> JObj([data |-> JObj([result |-> JNull])])]
    [] text = "{\"data\":{}}" ->
         [ok |-> TRUE, v |-> JObj([data |-> JObj(NoMembers)])]
    [] text = "{}"   -> [ok |-> TRUE, v |-> JObj(NoMembers)]
    [] text = "null" -> [ok |-> TRUE, v |-> JNull]
    [] text = "[1]"  -> [ok |-> TRUE, v |-> JArr]
    [] OTHER         -> [ok |-> FALSE, v |-> JNull]

\* a Go map lookup m[name] on a decoded object: nil (JSON null) when absent
Member(obj, name) == IF name \in DOMAIN obj.f THEN obj.f[name] ELSE JNull

(***************************************************************************)
(* The parameter encoders (session.go:103-152).  A parameter value is a    *)
(* Go value of one of the dynamic types bool, string, int or nil; keys and *)
(* encoded values are strings of character codes; a url.Values is a        *)
(* mapping from key to a list of values.                                   *)
(***************************************************************************)
PBool(b) == [k |-> "bool", b |-> b]
PStr(s)  == [k |-> "str", s |-> s]
PInt(n)  == [k |-> "int", n |-> n]
PNil     == [k |-> "nil"]

\* strconv.Itoa, as %v formats an int
RECURSIVE Itoa(_)
Itoa(n) ==
  IF n < 0 THEN <<45>> \o Itoa(0 - n)
  ELSE IF n < 10 THEN <<48 + n>>
  ELSE Itoa(n \div 10) \o <<48 + (n % 10)>>

\* fmt.Sprintf("%v", x) (session.go:143): a string is itself, an int its
\* decimal digits, nil is "<nil>", and a bool, which the encoder never
\* formats this way, "true" or "false"
Sprintf_v(x) ==
  CASE x.k = "str"  -> x.s
    [] x.k = "int"  -> Itoa(x.n)
    [] x.k = "nil"  -> <<60,110,105,108,62>>
    [] x.k = "bool" -> IF x.b THEN <<116,114,117,101>> ELSE <<102,97,108,115,101>>

\* the type switch formatting every value with %v
EncodeValue_Sprintf(x) == Sprintf_v(x)

\* the type switch of session.go:133-144: the string a value encodes as
EncodeValue(x) ==
  IF x.k = "bool" THEN (IF x.b THEN <<49>> ELSE <<48>>) ELSE Sprintf_v(x)

\* inArray(arr, str): str is an element of the list arr
inArray(arr, str) == \E i \in DOMAIN arr : arr[i] = str

\* the encoder keeping every key whatever its value
ParamsToValuesWithAllEmpty_KeepAll(params, allowedEmpty, allowEmpty) ==
  [k \in DOMAIN params |-> <<EncodeValue(params[k])>>]

\* ParamsToValuesWithAllEmpty (session.go:130-152): vals.Set(k, v) for every
\* key that is kept
ParamsToValuesWithAllEmpty(params, allowedEmpty, allowEmpty) ==
  LET kept == {k \in DOMAIN params :
                 \/ allowEmpty
                 \/ EncodeValue(params[k]) # Empty
                 \/ inArray(allowedEmpty, k)}
  IN  [k \in kept |-> <<EncodeValue(params[k])>>]

\* ParamsToValuesWithEmpty (session.go:126-128)
ParamsToValuesWithEmpty(params, allowedEmpty) ==
  ParamsToValuesWithAllEmpty(params, allowedEmpty, FALSE)

\* ParamsToValues (session.go:109-112)
ParamsToValues(params) == ParamsToValuesWithEmpty(params, << >>)

\* url.QueryEscape on one ASCII character: letters, digits, '-', '_', '.' and
\* '~' stay, a space becomes '+', anything else "%XX" in upper-case hex
UpperHex == <<48,49,50,51,52,53,54,55,56,57,65,66,67,68,69,70>>
EscapeChar(c) ==
  IF \/ c \in 48..57 \/ c \in 65..90 \/ c \in 97..122
     \/ c \in {45, 95, 46, 126}
  THEN <<c>>
  ELSE IF c = 32 THEN <<43>>
  ELSE <<37, UpperHex[(c \div 16) + 1], UpperHex[(c % 16) + 1]>>

QueryEscape(s) == Concat([i \in 1..Len(s) |-> EscapeChar(s[i])])

\* a < b in the byte order sort.Strings uses
RECURSIVE StrLess(_, _)
StrLess(a, b) ==
  IF b = << >> THEN FALSE
  ELSE IF a = << >> THEN TRUE
  ELSE IF Head(a) # Head(b) THEN Head(a) < Head(b)
  ELSE StrLess(Tail(a), Tail(b))

\* the keys of a mapping in sorted order
RECURSIVE SortedKeys(_)
SortedKeys(ks) ==
  IF ks = {} THEN << >>
  ELSE LET m == CHOOSE x \in ks : \A y \in ks \ {x} : StrLess(x, y)
       IN  <<m>> \o SortedKeys(ks \ {m})

\* url.Values.Encode (session.go:105, 116, 122): "k=v" for every value of
\* every key in sorted key order, escaped and joined by '&'
RECURSIVE JoinAmp(_)
JoinAmp(parts) ==
  IF parts = << >> THEN << >>
  ELSE IF Len(parts) = 1 THEN Head(parts)
  ELSE Head(parts) \o <<38>> \o JoinAmp(Tail(parts))

Encode(vals) ==
  LET ks == SortedKeys({k \in DOMAIN vals : vals[k] # << >>})
      pairs(k) == JoinAmp([i \in 1..Len(vals[k]) |->
                    QueryEscape(k) \o <<61>> \o QueryEscape(vals[k][i])])
  IN  JoinAmp([i \in 1..Len(ks) |-> pairs(ks[i])])

\* ParamsToBody, ParamsToBodyWithEmpty, ParamsToBodyWithAllEmpty
\* (session.go:103-107, 114-124)
ParamsToBody(params) == Encode(ParamsToValuesWithEmpty(params, << >>))
ParamsToBodyWithEmpty(params, allowedEmpty) ==
  Encode(ParamsToValuesWithEmpty(params, allowedEmpty))
ParamsToBodyWithAllEmpty(params) ==
  Encode(ParamsToValuesWithAllEmpty(params, << >>, TRUE))

(***************************************************************************)
(* The state.                                                              *)
(*   Debug        the process-wide flag (session.go:18)                    *)
(*   httpClient, ApiUrl, AuthTicket, CsrfToken, AuthToken, Headers         *)
(*                the fields of the Session (session.go:25-32)             *)
(* Every other variable is a function of the thread of execution that is   *)
(* inside a call on the Session:                                           *)
(*   pc        where the thread is                                         *)
(*   kind      the method that handles what Request returns: "Request"     *)
(*             for Get, Delete, Head, Post and Put, which return it as is, *)
(*             "RequestJSON" for GetJSON and PostJSON, or "Login"          *)
(*   hdrRef    which map req.Header is: "session" when it aliases          *)
(*             s.Headers, "own" when it is a map only this request holds   *)
(*   reqHdr    the contents of req.Header when hdrRef is "own"             *)
(*   olddebug  Login's local of that name                                  *)
(*   entryDebug  what Debug was when the thread entered Login or, when     *)
(*             other Logins were running, when the first of them was       *)
(*             entered (history)                                           *)
(*   entryHeaders  what Headers was when the thread entered the method     *)
(*             (history)                                                   *)
(*   tres      the response the transport returned                         *)
(*   stream    the transport's body stream: "none", "open" or "closed"     *)
(*   doRes     what Request returned to the method that called it          *)
(*   logged    what the call wrote to the log                              *)
(*   wire      the header the underlying transport was handed              *)
(*   ret       what the method returned to its caller                      *)
(*   reads     the bytes each io.ReadAll of the body that Do returned      *)
(*             yielded, in order                                           *)
(*   decoded   what a response decoder returned to the caller: the decoder *)
(*             (op), its error, whether the response had a Body and the    *)
(*             bytes read from it, the destination's field before (X0) and *)
(*             after (X) TypedResponse, and the map ResponseJSON returned  *)
(*   issued    the ticket and the CSRF token that the most recent Login    *)
(*             to succeed on the Session extracted (history)               *)
(* and one variable holds the last call of a parameter encoder:            *)
(*   enc       the function called (fn), its arguments, the url.Values it  *)
(*             built (vals) and, for the ParamsToBody functions, the bytes *)
(*             it returned (body)                                          *)
(***************************************************************************)
VARIABLES Debug, httpClient, ApiUrl, AuthTicket, CsrfToken, AuthToken, Headers,
          pc, kind, hdrRef, reqHdr, olddebug, entryDebug, tres, stream, doRes,
          logged, wire, ret, reads, decoded, enc, issued, entryHeaders

session == <<httpClient, ApiUrl, AuthTicket, CsrfToken, AuthToken, Headers, issued>>
locals  == <<kind, hdrRef, reqHdr, olddebug, entryDebug, entryHeaders, tres,
             stream, doRes, logged, wire>>
results == <<ret, reads, decoded>>
vars    == <<Debug, session, pc, locals, results, enc>>

Threads == DOMAIN pc

\* an http.Header with no entries
NoHeader == [k \in {} |-> << >>]

\* h[k] = v on a Go map
Put(h, k, v) == [x \in (DOMAIN h) \cup {k} |-> IF x = k THEN v ELSE h[x]]

\* a *http.Response and its Body.  A Body is a reader over data; once read to
\* the end (consumed) every further read yields no bytes.
NoResp == [present |-> FALSE]
NoBody == [present |-> FALSE]
\* a reader that is already at its end
Reader_Spent(data) == [present |-> TRUE, data |-> data, consumed |-> TRUE]

Reader(data) == [present |-> TRUE, data |-> data, consumed |-> FALSE]

\* io.ReadAll on a Body: the bytes it yields
ReadAll(body) == IF body.consumed THEN "" ELSE body.data
\* the Body after io.ReadAll
Drained(body) == [body EXCEPT !.consumed = TRUE]

NoDoRes == [resp |-> NoResp, err |-> NoErr]
NoRet   == [method |-> "none", outcome |-> "none", resp |-> NoResp, err |-> NoErr]
NoWire  == [reached |-> FALSE, hdr |-> NoHeader]
NoTres  == [StatusCode |-> 0, Status |-> Empty, body |-> "", readFails |-> FALSE]
NoEnc == [fn |-> "none", params |-> [k \in {} |-> PNil], allowedEmpty |-> << >>,
          allowEmpty |-> FALSE, vals |-> [k \in {} |-> << >>], body |-> Empty]
NoDecoded == [op |-> "none", err |-> NoErr, hasBody |-> FALSE, body |-> "",
              X0 |-> 0, X |-> 0, jbody |-> JNull]

(***************************************************************************)
(* The inputs of the model.                                                *)
(***************************************************************************)
\* the userID "u" and the secret "s" of the API token
UserIDs == { <<117>> }
Secrets == { <<115>> }

\* values of caller-supplied headers: " ~" (the two ends of the valid range),
\* "a" followed by 31, DEL alone, and the characters of the header name "X-Q"
ValOK  == <<32,126>>
ValCtl == <<97,31>>
ValDel == <<127>>

\* the header mappings a caller passes to a verb method
CallerHeaders ==
  { [k \in {"X-A"} |-> <<ValOK, ValCtl>>],
    [k \in {"X-A", "X-B"} |-> IF k = "X-A" THEN <<ValCtl>> ELSE <<ValDel>>],
    [k \in {"X-Q"} |-> <<Chars("X-Q")>>],
    [k \in {"Authorization", "Accept"} |-> <<ValOK>>] }

\* the headers argument of a call: nil, or a pointer to a caller's mapping
HeaderArgs == {[nil |-> TRUE, h |-> NoHeader]} \cup
              {[nil |-> FALSE, h |-> h] : h \in CallerHeaders}

PlainVerbs == {"Get", "Delete", "Head", "Post", "Put"}
JSONVerbs  == {"GetJSON", "PostJSON"}

\* the method a verb method passes its arguments to (session.go:357-424)
Handler(verb) == IF verb \in JSONVerbs THEN "RequestJSON" ELSE "Request"

\* the base URLs a Session is constructed with: one that url.Parse accepts and
\* one that it rejects
ApiUrls == {"https://pve:8006/api2/json", "https://pve:8006/%zz"}

\* http.NewRequest fails when the URL does not parse (session.go:229-232)
NewRequestFails(url) == url = "https://pve:8006/%zz"

\* what a server answers: status code, status line, body text, and whether
\* reading the body stream fails before its end
Statuses ==
  { [StatusCode |-> 200, Status |-> <<50,48,48,32,79,75>>],
    [StatusCode |-> 299, Status |-> <<50,57,57,32,120>>],
    [StatusCode |-> 199, Status |-> <<49,57,57,32,120>>],
    [StatusCode |-> 300, Status |-> <<51,48,48,32,120>>],
    [StatusCode |-> 500, Status |-> <<53,48,48,32,53,48,37>>] }

Responses ==
  { [StatusCode |-> s.StatusCode, Status |-> s.Status, body |-> b, readFails |-> f] :
      s \in Statuses, b \in Bodies, f \in BOOLEAN }

\* the responses the model's server sends to a call of kind k: the ticket
\* endpoint answers a Login, any other endpoint the other calls; every body
\* comes with "200 OK", every status with one body, and a failing body stream
\* with two statuses
Served(k) ==
  { r \in Responses :
      /\ IF k = "Login" THEN r.body \in LoginBodies \cup {"{\"data\":{}}", "null", "<html>"}
                        ELSE r.body \in ResultBodies
      /\ IF r.readFails THEN r.body = "<html>" /\ r.StatusCode \in {200, 500}
         ELSE r.StatusCode = 200 \/ r.body = "{\"data\":{}}" }

(***************************************************************************)
(* NewSession (session.go:68-101): with no client supplied it builds one   *)
(* whose transport is a secureTransport; a supplied client is used as is.  *)
(* All credentials start empty and Headers is an empty mapping.            *)
(***************************************************************************)
NewSessionClient(hclient) ==
  IF hclient = "nil" THEN "secureTransport" ELSE hclient

InitSession ==
  /\ \E hclient \in {"nil", "custom"} : httpClient = NewSessionClient(hclient)
  /\ ApiUrl \in ApiUrls
  /\ AuthTicket = Empty
  /\ CsrfToken = Empty
  /\ AuthToken = Empty
  /\ Headers = NoHeader
  /\ issued = [ticket |-> Empty, csrf |-> Empty]

InitThreads(T) ==
  /\ pc = [t \in T |-> "idle"]
  /\ kind = [t \in T |-> "none"]
  /\ hdrRef = [t \in T |-> "own"]
  /\ reqHdr = [t \in T |-> NoHeader]
  /\ olddebug = [t \in T |-> FALSE]
  /\ entryDebug = [t \in T |-> FALSE]
  /\ entryHeaders = [t \in T |-> NoHeader]
  /\ tres = [t \in T |-> NoTres]
  /\ stream = [t \in T |-> "none"]
  /\ doRes = [t \in T |-> NoDoRes]
  /\ logged = [t \in T |-> {}]
  /\ wire = [t \in T |-> NoWire]
  /\ ret = [t \in T |-> NoRet]
  /\ reads = [t \in T |-> << >>]
  /\ decoded = [t \in T |-> NoDecoded]

\* one thread of execution uses the Session
Init ==
  /\ Debug = FALSE
  /\ InitSession
  /\ InitThreads({1})
  /\ enc = NoEnc

(***************************************************************************)
(* Calls.  A thread that is idle enters one exported method; the steps of  *)
(* the method follow, and the thread is idle again when it has returned.   *)
(***************************************************************************)
\* the mapping that req.Header is
ReqHeader(t) == IF hdrRef[t] = "session" THEN Headers ELSE reqHdr[t]

\* a method is entered with the headers argument ref/h: the caller has dropped
\* what its previous call returned
Enter(t, k, ref, h) ==
  /\ pc[t] = "idle"
  /\ pc' = [pc EXCEPT ![t] = "new"]
  /\ kind' = [kind EXCEPT ![t] = k]
  /\ hdrRef' = [hdrRef EXCEPT ![t] = ref]
  /\ reqHdr' = [reqHdr EXCEPT ![t] = h]
  /\ entryHeaders' = [entryHeaders EXCEPT ![t] = Headers]
  /\ UNCHANGED <<tres, stream, doRes, logged, wire>>
  /\ ret' = [ret EXCEPT ![t] = NoRet]
  /\ reads' = [reads EXCEPT ![t] = << >>]
  /\ decoded' = [decoded EXCEPT ![t] = NoDecoded]

\* SetAPIToken (session.go:189-192): AuthToken = userID "=" token
SetAPIToken(t, userID, token) ==
  /\ pc[t] = "idle"
  /\ AuthToken' = userID \o <<61>> \o token
  /\ UNCHANGED <<Debug, httpClient, ApiUrl, AuthTicket, CsrfToken, Headers, issued,
                 pc, locals, results>>

\* a caller sets the exported flag (session.go:18)
SetDebug(t, b) ==
  /\ pc[t] = "idle"
  /\ Debug' = b
  /\ UNCHANGED <<session, pc, locals, results>>

\* the default headers a caller stores in the exported field Headers
\* (session.go:31): X-A and Accept with the value " ~"
SessionDefaults == { [k \in {"X-A", "Accept"} |-> <<ValOK>>] }

\* a caller sets the default headers: s.Headers = h
SetHeaders(t, h) ==
  /\ pc[t] = "idle"
  /\ Headers' = h
  /\ UNCHANGED <<Debug, httpClient, ApiUrl, AuthTicket, CsrfToken, AuthToken, issued,
                 pc, locals, results>>

\* Post and Put (session.go:390-401, 413-424): with no headers they pass a new
\* mapping holding the form content type
DefaultedHeaders(verb, arg) ==
  IF verb \in {"Post", "Put"} /\ arg.nil
  THEN [nil |-> FALSE, h |-> Put(NoHeader, "Content-Type", <<FormURLEncoded>>)]
  ELSE arg

\* Get, Delete, Head, Post, Put, GetJSON, PostJSON up to the call of NewRequest
\* (session.go:285-303, 315-336, 357-424)
Call(t, verb, arg) ==
  LET a == DefaultedHeaders(verb, arg)
  IN  /\ Enter(t, Handler(verb), IF a.nil THEN "nil" ELSE "own", a.h)
      /\ UNCHANGED <<Debug, session, olddebug, entryDebug>>

\* what Debug was before the first of the Logins that are running when t
\* enters Login was entered: Debug itself when no other Login is running
DebugBeforeLogins(t) ==
  LET running == {u \in Threads \ {t} : kind[u] = "Login"}
  IN  IF running = {} THEN Debug ELSE entryDebug[CHOOSE u \in running : TRUE]

\* Login up to the call of NewRequest (session.go:194-202, 390-400, 285-303):
\* the flag is saved and cleared, and Post is given a pointer to s.Headers
LoginBegin(t) ==
  /\ Enter(t, "Login", "session", NoHeader)
  /\ olddebug' = [olddebug EXCEPT ![t] = Debug]
  /\ entryDebug' = [entryDebug EXCEPT ![t] = DebugBeforeLogins(t)]
  /\ Debug' = FALSE
  /\ UNCHANGED session

\* NewRequestAuth without the CSRF header of the ticket scheme
NewRequestAuth_NoCsrf(h) ==
  IF AuthToken # Empty
  THEN Put(h, "Authorization", <<PVEAPIToken \o AuthToken>>)
  ELSE IF AuthTicket # Empty
  THEN Put(h, "Authorization", <<PVEAuthCookie \o AuthTicket>>)
  ELSE h

\* the credential headers NewRequest stores in the mapping h (session.go:236-241)
NewRequestAuth(h) ==
  IF AuthToken # Empty
  THEN Put(h, "Authorization", <<PVEAPIToken \o AuthToken>>)
  ELSE IF AuthTicket # Empty
  THEN Put(Put(h, "Authorization", <<PVEAuthCookie \o AuthTicket>>),
           "CSRFPreventionToken", <<CsrfToken>>)
  ELSE h

\* NewRequest (session.go:228-243).  http.NewRequest gives the request a new
\* empty mapping; a non-nil headers argument replaces it by the mapping the
\* argument points to, which the credential headers are then written into.
NewRequest(t) ==
  /\ pc[t] = "new"
  /\ IF NewRequestFails(ApiUrl)
     THEN /\ doRes' = [doRes EXCEPT ![t] = [resp |-> NoResp,
                                           err |-> Err("NewRequest", Empty)]]
          /\ pc' = [pc EXCEPT ![t] = "done"]
          /\ UNCHANGED <<hdrRef, reqHdr, Headers>>
     ELSE /\ pc' = [pc EXCEPT ![t] = "built"]
          /\ doRes' = doRes
          /\ IF hdrRef[t] = "session"
             THEN /\ Headers' = NewRequestAuth(Headers)
                  /\ UNCHANGED <<hdrRef, reqHdr>>
             ELSE /\ hdrRef' = [hdrRef EXCEPT ![t] = "own"]
                  /\ reqHdr' = [reqHdr EXCEPT ![t] =
                       NewRequestAuth(IF hdrRef[t] = "nil" THEN NoHeader ELSE reqHdr[t])]
                  /\ Headers' = Headers
  /\ UNCHANGED <<Debug, httpClient, ApiUrl, AuthTicket, CsrfToken, AuthToken, issued,
                 kind, olddebug, entryDebug, entryHeaders, tres, stream, logged, wire,
                 results>>

\* the merge keeping the request's value where the request has the name
AddSessionHeaders_RequestWins(h) ==
  [k \in (DOMAIN h) \cup (DOMAIN Headers) |->
     IF k \in DOMAIN h THEN h[k] ELSE Headers[k]]

\* the loop of session.go:247-249: every entry of s.Headers is stored in h
AddSessionHeaders(h) ==
  [k \in (DOMAIN h) \cup (DOMAIN Headers) |->
     IF k \in DOMAIN Headers THEN Headers[k] ELSE h[k]]

\* Request sets Accept and calls Do, which adds the session headers and logs
\* the request when Debug is set (session.go:309-311, 245-254)
EnterDo(t) ==
  /\ pc[t] = "built"
  /\ pc' = [pc EXCEPT ![t] = "send"]
  /\ IF hdrRef[t] = "session"
     THEN /\ Headers' = Put(Headers, "Accept", <<ApplicationJSON>>)
          /\ reqHdr' = reqHdr
     ELSE /\ reqHdr' = [reqHdr EXCEPT ![t] =
               AddSessionHeaders(Put(reqHdr[t], "Accept", <<ApplicationJSON>>))]
          /\ Headers' = Headers
  /\ logged' = [logged EXCEPT ![t] = IF Debug THEN @ \cup {"REQUEST"} ELSE @]
  /\ UNCHANGED <<Debug, httpClient, ApiUrl, AuthTicket, CsrfToken, AuthToken, issued,
                 kind, hdrRef, olddebug, entryDebug, entryHeaders, tres, stream, doRes, wire,
                 results>>

\* secureTransport.RoundTrip before it delegates (session.go:43-46): the error
\* it returns instead of delegating, nil when it delegates
secureRoundTrip(h, order) ==
  LET err == validateHeader(h, order)
  IN  IF err # NoErr
      THEN Err("HeaderValidation",
               <<105,110,118,97,108,105,100,32,104,101,97,100,101,114,58,32>>
               \o err.text)
      ELSE NoErr

\* what the client's transport does before the underlying transport is
\* reached: only the client NewSession built has a secureTransport
ClientCheck(client, h, order) ==
  IF client = "secureTransport" THEN secureRoundTrip(h, order) ELSE NoErr

\* s.httpClient.Do(req) (session.go:256-259): the client's check gives one of
\* the errors that some order of the range over the header gives.  The
\* underlying transport, when it is reached, fails or returns one of the
\* server's responses with its body stream open.
RoundTrip(t) ==
  /\ pc[t] = "send"
  /\ \E err \in {ClientCheck(httpClient, ReqHeader(t), order) :
                   order \in Orders(ReqHeader(t))} :
           IF err # NoErr
           THEN /\ doRes' = [doRes EXCEPT ![t] = [resp |-> NoResp, err |-> err]]
                /\ pc' = [pc EXCEPT ![t] = "done"]
                /\ UNCHANGED <<tres, stream, wire>>
           ELSE /\ wire' = [wire EXCEPT ![t] = [reached |-> TRUE, hdr |-> ReqHeader(t)]]
                /\ \/ /\ doRes' = [doRes EXCEPT ![t] =
                             [resp |-> NoResp, err |-> Err("Transport", Empty)]]
                      /\ pc' = [pc EXCEPT ![t] = "done"]
                      /\ UNCHANGED <<tres, stream>>
                   \/ /\ \E r \in Served(kind[t]) : tres' = [tres EXCEPT ![t] = r]
                      /\ stream' = [stream EXCEPT ![t] = "open"]
                      /\ pc' = [pc EXCEPT ![t] = "drain"]
                      /\ doRes' = doRes
  /\ UNCHANGED <<Debug, session, kind, hdrRef, reqHdr, olddebug, entryDebug,
                 entryHeaders, logged,
                 results>>

\* the error Do returns for a status code (session.go:277-281)
StatusErr(code, status) ==
  IF code < StatusMin \/ code > StatusMax
  THEN Err("Status", Errorf(status))
  ELSE NoErr

\* the rest of Do (session.go:265-281): the body is read to its end, the
\* stream closed and replaced by a reader over the bytes, the response logged
\* when Debug is set, and the status code checked
Drain(t) ==
  /\ pc[t] = "drain"
  /\ pc' = [pc EXCEPT ![t] = "done"]
  /\ IF tres[t].readFails
     THEN /\ doRes' = [doRes EXCEPT ![t] = [resp |-> NoResp, err |-> Err("Read", Empty)]]
          /\ UNCHANGED <<stream, logged>>
     ELSE /\ stream' = [stream EXCEPT ![t] = "closed"]
          /\ logged' = [logged EXCEPT ![t] = IF Debug THEN @ \cup {"RESULT"} ELSE @]
          /\ doRes' = [doRes EXCEPT ![t] =
               [resp |-> [present |-> TRUE,
                          StatusCode |-> tres[t].StatusCode,
                          Status |-> tres[t].Status,
                          Body |-> Reader(tres[t].body)],
                err |-> StatusErr(tres[t].StatusCode, tres[t].Status)]]
  /\ UNCHANGED <<Debug, session, kind, hdrRef, reqHdr, olddebug, entryDebug,
                 entryHeaders, tres,
                 wire, results>>

(***************************************************************************)
(* The response decoders (session.go:154-187).                             *)
(***************************************************************************)
\* decodeResponse up to the call of json.Unmarshal (session.go:155-161): the
\* bytes handed to Unmarshal; a reader over memory never fails
decodeResponseBytes(body) == ReadAll(body)

\* ResponseJSON (session.go:168-171): decodeResponse into a nil
\* map[string]interface{}.  jbody is JNull for the nil map.  JSON null leaves
\* the map nil without error; anything but an object or null is a type error.
ResponseJSON(body) ==
  IF ~body.present THEN [err |-> NoErr, jbody |-> JNull]
  ELSE LET u == Unmarshal(decodeResponseBytes(body))
       IN  IF ~u.ok THEN [err |-> Err("Decode", Empty), jbody |-> JNull]
           ELSE IF u.v.k \in {"obj", "null"} THEN [err |-> NoErr, jbody |-> u.v]
           ELSE [err |-> Err("Decode", Empty), jbody |-> JNull]

\* decodeResponse into TypedResponse's intermediate struct (session.go:174-179):
\* raw is the JSON value of data.result, has tells whether Result was filled.
\* JSON null for the whole body or for data leaves the struct as it was.
DecodeEnvelope(body) ==
  LET none == [err |-> NoErr, has |-> FALSE, raw |-> JNull]
      bad  == [err |-> Err("Decode", Empty), has |-> FALSE, raw |-> JNull]
  IN  IF ~body.present THEN none
      ELSE LET u == Unmarshal(decodeResponseBytes(body))
           IN  IF ~u.ok THEN bad
               ELSE IF u.v.k = "null" THEN none
               ELSE IF u.v.k # "obj" THEN bad
               ELSE IF "data" \notin DOMAIN u.v.f THEN none
               ELSE LET data == u.v.f["data"]
                    IN  IF data.k = "null" THEN none
                        ELSE IF data.k # "obj" THEN bad
                        ELSE IF "result" \notin DOMAIN data.f THEN none
                        ELSE [err |-> NoErr, has |-> TRUE, raw |-> data.f["result"]]

\* json.Unmarshal(intermediate.Data.Result, v) for v a pointer to a
\* struct{ X int } holding dest (session.go:183).  An empty Result is not JSON;
\* JSON null leaves the destination as it was.
UnmarshalResult(env, dest) ==
  IF ~env.has THEN [err |-> Err("Syntax", Empty), dest |-> dest]
  ELSE IF env.raw.k = "null" THEN [err |-> NoErr, dest |-> dest]
  ELSE IF env.raw.k # "obj" THEN [err |-> Err("Type", Empty), dest |-> dest]
  ELSE IF "x" \notin DOMAIN env.raw.f THEN [err |-> NoErr, dest |-> dest]
  ELSE IF env.raw.f["x"].k = "null" THEN [err |-> NoErr, dest |-> dest]
  ELSE IF env.raw.f["x"].k # "num" THEN [err |-> Err("Type", Empty), dest |-> dest]
  ELSE [err |-> NoErr, dest |-> env.raw.f["x"].n]

\* TypedResponse (session.go:173-187) with the destination holding dest.  The
\* kind of the error names the fmt.Errorf that made it: "Envelope" is
\* "error reading response envelope: ...", "Result" is
\* "error unmarshalling result ...".
TypedResponse(body, dest) ==
  LET env == DecodeEnvelope(body)
  IN  IF env.err # NoErr THEN [err |-> Err("Envelope", Empty), dest |-> dest]
      ELSE LET r == UnmarshalResult(env, dest)
           IN  IF r.err # NoErr THEN [err |-> Err("Result", Empty), dest |-> dest]
               ELSE [err |-> NoErr, dest |-> r.dest]

(***************************************************************************)
(* Returning from the methods.                                             *)
(***************************************************************************)
\* the method returns to its caller: its locals are gone
Return(t, outcome, resp, err) ==
  /\ ret' = [ret EXCEPT ![t] = [method |-> kind[t], outcome |-> outcome,
                                resp |-> resp, err |-> err]]
  /\ pc' = [pc EXCEPT ![t] = "idle"]
  /\ kind' = [kind EXCEPT ![t] = "none"]
  /\ hdrRef' = [hdrRef EXCEPT ![t] = "own"]
  /\ reqHdr' = [reqHdr EXCEPT ![t] = NoHeader]
  /\ olddebug' = [olddebug EXCEPT ![t] = FALSE]
  /\ entryDebug' = [entryDebug EXCEPT ![t] = FALSE]
  /\ entryHeaders' = [entryHeaders EXCEPT ![t] = NoHeader]
  /\ tres' = [tres EXCEPT ![t] = NoTres]
  /\ stream' = [stream EXCEPT ![t] = "none"]
  /\ doRes' = [doRes EXCEPT ![t] = NoDoRes]
  /\ logged' = [logged EXCEPT ![t] = {}]
  /\ wire' = [wire EXCEPT ![t] = NoWire]

\* Get, Delete, Head, Post, Put return what Request returned
\* (session.go:311, 362, 370, 387, 400, 423)
RequestReturn(t) ==
  /\ pc[t] = "done"
  /\ kind[t] = "Request"
  /\ Return(t, "returned", doRes[t].resp, doRes[t].err)
  /\ UNCHANGED <<Debug, session, reads, decoded>>

\* RequestJSON after Request (session.go:336-354): on success the body is read
\* and decoded into the caller's container, here a map[string]interface{}
RequestJSONEnd(t) ==
  /\ pc[t] = "done"
  /\ kind[t] = "RequestJSON"
  /\ IF doRes[t].err # NoErr
     THEN /\ Return(t, "returned", doRes[t].resp, doRes[t].err)
          /\ reads' = reads
     ELSE LET body == doRes[t].resp.Body
              j == ResponseJSON(body)
          IN  /\ reads' = [reads EXCEPT ![t] = Append(@, ReadAll(body))]
              /\ Return(t, "returned",
                        [doRes[t].resp EXCEPT !.Body = Drained(body)], j.err)
  /\ UNCHANGED <<Debug, session, decoded>>

\* Login after Post returned res (session.go:204-225), on a Session holding
\* ticket and csrf: how the call ends, and the AuthTicket and CsrfToken it
\* leaves.  A failed type assertion panics.
LoginResult(res, ticket, csrf) ==
  LET out(o, e, tk, cs) == [outcome |-> o, err |-> e, ticket |-> tk, csrf |-> cs]
  IN  IF res.err # NoErr THEN out("returned", res.err, ticket, csrf)
      ELSE IF ~res.resp.present
      THEN out("returned", Err("NoResponse", Empty), ticket, csrf)
      ELSE LET j == ResponseJSON(res.resp.Body)
           IN  IF j.err # NoErr THEN out("returned", j.err, ticket, csrf)
               ELSE IF j.jbody.k = "null" \/ Member(j.jbody, "data").k = "null"
               THEN out("returned", Err("InvalidLoginResponse", Empty), ticket, csrf)
               ELSE LET dat == Member(j.jbody, "data")
                    IN  IF dat.k # "obj" THEN out("panic", NoErr, ticket, csrf)
                        ELSE IF Member(dat, "NeedTFA") = JNum(1)
                        THEN out("returned", Err("MissingTFA", Empty), ticket, csrf)
                        ELSE IF Member(dat, "ticket").k # "str"
                        THEN out("panic", NoErr, ticket, csrf)
                        ELSE IF Member(dat, "CSRFPreventionToken").k # "str"
                        THEN out("panic", NoErr, Member(dat, "ticket").s, csrf)
                        ELSE out("returned", NoErr, Member(dat, "ticket").s,
                                 Member(dat, "CSRFPreventionToken").s)

\* Login leaving Debug as it is when Post has returned
RestoredDebug_Kept(t) == Debug

\* the value Login stores in Debug when Post has returned (session.go:203)
RestoredDebug(t) == olddebug[t]

\* the rest of Login (session.go:203-226)
LoginEnd(t) ==
  /\ pc[t] = "done"
  /\ kind[t] = "Login"
  /\ Debug' = RestoredDebug(t)
  /\ LET r == LoginResult(doRes[t], AuthTicket, CsrfToken)
     IN  /\ AuthTicket' = r.ticket
         /\ CsrfToken' = r.csrf
         /\ issued' = IF r.outcome = "returned" /\ r.err = NoErr
                      THEN [ticket |-> r.ticket, csrf |-> r.csrf]
                      ELSE issued
         /\ Return(t, r.outcome, NoResp, r.err)
  /\ UNCHANGED <<httpClient, ApiUrl, AuthToken, Headers, reads, decoded>>

(***************************************************************************)
(* What a caller does with the response a method returned.                 *)
(***************************************************************************)
\* io.ReadAll(resp.Body)
ReadBody(t) ==
  /\ pc[t] = "idle"
  /\ ret[t].resp.present
  /\ Len(reads[t]) < MaxReads
  /\ reads' = [reads EXCEPT ![t] = Append(@, ReadAll(ret[t].resp.Body))]
  /\ ret' = [ret EXCEPT ![t].resp.Body = Drained(@)]
  /\ UNCHANGED <<Debug, session, pc, locals, decoded>>

\* TypedResponse(resp, &v) with v a zero struct{ X int }; body is the bytes
\* its io.ReadAll yielded
CallTypedResponse(t) ==
  /\ pc[t] = "idle"
  /\ ret[t].resp.present
  /\ decoded[t].op = "none"
  /\ Len(reads[t]) < MaxReads
  /\ reads' = [reads EXCEPT ![t] = Append(@, ReadAll(ret[t].resp.Body))]
  /\ LET r == TypedResponse(ret[t].resp.Body, 0)
     IN  decoded' = [decoded EXCEPT ![t] =
           [op |-> "TypedResponse", err |-> r.err, hasBody |-> TRUE,
            body |-> ReadAll(ret[t].resp.Body), X0 |-> 0, X |-> r.dest,
            jbody |-> JNull]]
  /\ ret' = [ret EXCEPT ![t].resp.Body = Drained(@)]
  /\ UNCHANGED <<Debug, session, pc, locals>>

\* the values the field X of a caller's destination holds before a decode
Dests == {0, 7}

\* ResponseJSON(resp) or TypedResponse(resp, &v) on a response the caller
\* holds whose Body is nil (session.go:154-157, 168-187), v.X holding dest
DecodeNoBody(t, op, dest) ==
  /\ pc[t] = "idle"
  /\ decoded[t].op = "none"
  /\ decoded' = [decoded EXCEPT ![t] =
       IF op = "ResponseJSON"
       THEN LET j == ResponseJSON(NoBody)
            IN  [op |-> op, err |-> j.err, hasBody |-> FALSE, body |-> "",
                 X0 |-> dest, X |-> dest, jbody |-> j.jbody]
       ELSE LET r == TypedResponse(NoBody, dest)
            IN  [op |-> op, err |-> r.err, hasBody |-> FALSE, body |-> "",
                 X0 |-> dest, X |-> r.dest, jbody |-> JNull]]
  /\ UNCHANGED <<Debug, session, pc, locals, ret, reads>>

(***************************************************************************)
(* The specification.                                                      *)
(***************************************************************************)
Next ==
  \/ \E t \in Threads, u \in UserIDs, s \in Secrets : SetAPIToken(t, u, s) /\ UNCHANGED enc
  \/ \E t \in Threads, b \in BOOLEAN : SetDebug(t, b) /\ UNCHANGED enc
  \/ \E t \in Threads, h \in SessionDefaults : SetHeaders(t, h) /\ UNCHANGED enc
  \/ \E t \in Threads, verb \in PlainVerbs \cup JSONVerbs, arg \in HeaderArgs :
       Call(t, verb, arg) /\ UNCHANGED enc
  \/ \E t \in Threads : LoginBegin(t) /\ UNCHANGED enc
  \/ \E t \in Threads : NewRequest(t) /\ UNCHANGED enc
  \/ \E t \in Threads : EnterDo(t) /\ UNCHANGED enc
  \/ \E t \in Threads : RoundTrip(t) /\ UNCHANGED enc
  \/ \E t \in Threads : Drain(t) /\ UNCHANGED enc
  \/ \E t \in Threads : RequestReturn(t) /\ UNCHANGED enc
  \/ \E t \in Threads : RequestJSONEnd(t) /\ UNCHANGED enc
  \/ \E t \in Threads : LoginEnd(t) /\ UNCHANGED enc
  \/ \E t \in Threads : ReadBody(t) /\ UNCHANGED enc
  \/ \E t \in Threads : CallTypedResponse(t) /\ UNCHANGED enc

Spec == Init /\ [][Next]_vars

(***************************************************************************)
(* Two threads of execution each call Login once on the same Session, with *)
(* Debug set or not when they start, and nothing else uses the Session or  *)
(* the flag.                                                               *)
(***************************************************************************)
\* the thread has not called a method yet
Fresh(t) == pc[t] = "idle" /\ ret[t].method = "none"

ConcurrentInit ==
  /\ Debug \in BOOLEAN
  /\ InitSession
  /\ InitThreads({1, 2})
  /\ enc = NoEnc

ConcurrentNext ==
  \/ \E t \in Threads : Fresh(t) /\ LoginBegin(t) /\ UNCHANGED enc
  \/ \E t \in Threads : NewRequest(t) /\ UNCHANGED enc
  \/ \E t \in Threads : EnterDo(t) /\ UNCHANGED enc
  \/ \E t \in Threads : RoundTrip(t) /\ UNCHANGED enc
  \/ \E t \in Threads : Drain(t) /\ UNCHANGED enc
  \/ \E t \in Threads : LoginEnd(t) /\ UNCHANGED enc

ConcurrentSpec == ConcurrentInit /\ [][ConcurrentNext]_vars

(***************************************************************************)
(* Calls of the package's functions that take no Session: the parameter    *)
(* encoders, and the response decoders on a response without a Body.       *)
(***************************************************************************)
\* the keys "a" and "b&", the values a caller gives them, the parameter
\* mappings and the allow-lists: none, "a", and "b&" with "a"
ParamKeys == { <<97>>, <<98,38>> }
ParamValues ==
  { PBool(TRUE), PBool(FALSE), PStr(Empty), PStr(<<116,114,117,101>>),
    PStr(<<120,32,38>>), PInt(0), PInt(12), PInt(0 - 3), PNil }
ParamMaps == UNION { [K -> ParamValues] : K \in SUBSET ParamKeys }
AllowLists == { << >>, << <<97>> >>, << <<98,38>>, <<97>> >> }

\* what enc holds when a call of an encoder has returned, one call at a
\* time: vals is the url.Values the call built and body the bytes it
\* returned, empty for the functions that return the url.Values
EncoderCall(fn, params, allowedEmpty, allowEmpty, vals, body) ==
  [fn |-> fn, params |-> params, allowedEmpty |-> allowedEmpty,
   allowEmpty |-> allowEmpty, vals |-> vals, body |-> body]

CallParamsToBody(params) ==
  /\ enc.fn = "none"
  /\ enc' = EncoderCall("ParamsToBody", params, << >>, FALSE,
           ParamsToValuesWithEmpty(params, << >>), ParamsToBody(params))
  /\ UNCHANGED <<Debug, session, pc, locals, results>>

CallParamsToValues(params) ==
  /\ enc.fn = "none"
  /\ enc' = EncoderCall("ParamsToValues", params, << >>, FALSE,
           ParamsToValues(params), Empty)
  /\ UNCHANGED <<Debug, session, pc, locals, results>>

CallParamsToBodyWithEmpty(params, allowedEmpty) ==
  /\ enc.fn = "none"
  /\ enc' = EncoderCall("ParamsToBodyWithEmpty", params, allowedEmpty, FALSE,
           ParamsToValuesWithEmpty(params, allowedEmpty),
           ParamsToBodyWithEmpty(params, allowedEmpty))
  /\ UNCHANGED <<Debug, session, pc, locals, results>>

CallParamsToBodyWithAllEmpty(params) ==
  /\ enc.fn = "none"
  /\ enc' = EncoderCall("ParamsToBodyWithAllEmpty", params, << >>, TRUE,
           ParamsToValuesWithAllEmpty(params, << >>, TRUE),
           ParamsToBodyWithAllEmpty(params))
  /\ UNCHANGED <<Debug, session, pc, locals, results>>

CallParamsToValuesWithEmpty(params, allowedEmpty) ==
  /\ enc.fn = "none"
  /\ enc' = EncoderCall("ParamsToValuesWithEmpty", params, allowedEmpty, FALSE,
           ParamsToValuesWithEmpty(params, allowedEmpty), Empty)
  /\ UNCHANGED <<Debug, session, pc, locals, results>>

CallParamsToValuesWithAllEmpty(params, allowedEmpty, allowEmpty) ==
  /\ enc.fn = "none"
  /\ enc' = EncoderCall("ParamsToValuesWithAllEmpty", params, allowedEmpty, allowEmpty,
           ParamsToValuesWithAllEmpty(params, allowedEmpty, allowEmpty), Empty)
  /\ UNCHANGED <<Debug, session, pc, locals, results>>

\* the caller has used the result
DropEncoded ==
  /\ enc.fn # "none"
  /\ enc' = NoEnc
  /\ UNCHANGED <<Debug, session, pc, locals, results>>

\* the caller has used what the decoder returned
DropDecoded(t) ==
  /\ pc[t] = "idle"
  /\ decoded[t].op # "none"
  /\ decoded' = [decoded EXCEPT ![t] = NoDecoded]
  /\ UNCHANGED <<Debug, session, pc, locals, ret, reads, enc>>

PackageNext ==
  \/ \E t \in Threads, op \in {"ResponseJSON", "TypedResponse"}, dest \in Dests :
       DecodeNoBody(t, op, dest) /\ UNCHANGED enc
  \/ \E t \in Threads : DropDecoded(t)
  \/ DropEncoded
  \/ \E p \in ParamMaps : CallParamsToBody(p)
  \/ \E p \in ParamMaps : CallParamsToValues(p)
  \/ \E p \in ParamMaps, a \in AllowLists : CallParamsToBodyWithEmpty(p, a)
  \/ \E p \in ParamMaps : CallParamsToBodyWithAllEmpty(p)
  \/ \E p \in ParamMaps, a \in AllowLists : CallParamsToValuesWithEmpty(p, a)
  \/ \E p \in ParamMaps, a \in AllowLists, e \in BOOLEAN :
       CallParamsToValuesWithAllEmpty(p, a, e)

PackageSpec == Init /\ [][PackageNext]_vars

(***************************************************************************)
(* Properties.                                                             *)
(***************************************************************************)
\* the value v holds a character in 0..31 or the character 127
ValueOffends(v) == \E j \in DOMAIN v : v[j] \in (0..31) \cup {127}

\* the key k of the mapping h has such a value
KeyOffends(h, k) == \E i \in DOMAIN h[k] : ValueOffends(h[k][i])

\* some key of the mapping h has such a value
HasControlChar(h) == \E k \in DOMAIN h : KeyOffends(h, k)

\* C1: whenever AuthToken and AuthTicket are both non-empty, the request that
\* NewRequest has built carries exactly the Authorization value
\* "PVEAPIToken=" + AuthToken and no CSRFPreventionToken header.
C1_TokenOnly ==
  \A t \in Threads :
    (pc[t] = "built" /\ AuthToken # Empty /\ AuthTicket # Empty) =>
      /\ "Authorization" \in DOMAIN ReqHeader(t)
      /\ ReqHeader(t)["Authorization"] = <<PVEAPIToken \o AuthToken>>
      /\ "CSRFPreventionToken" \notin DOMAIN ReqHeader(t)

\* C2: Login has Debug false, and logs nothing, from its entry until Post
\* has returned, and when Login returns Debug is what it was when Login was
\* entered, however the call ends.
C2_DebugOffAndRestored ==
  /\ [](\A t \in Threads :
          (kind[t] = "Login" /\ pc[t] # "idle") => (Debug = FALSE /\ logged[t] = {}))
  /\ [][\A t \in Threads :
          (kind[t] = "Login" /\ pc[t] = "done" /\ pc'[t] = "idle")
            => Debug' = entryDebug[t]]_vars

\* a Login entered with Debug set is about to submit its credentials
C2_Witness ==
  \E t \in Threads :
    kind[t] = "Login" /\ pc[t] = "send" /\ entryDebug[t] /\ ~Debug

\* the body text has an object for data in which ticket or
\* CSRFPreventionToken is absent or not a string
MissingTicketFields(text) ==
  LET u == Unmarshal(text)
  IN  /\ u.ok
      /\ u.v.k = "obj"
      /\ "data" \in DOMAIN u.v.f
      /\ u.v.f["data"].k = "obj"
      /\ \/ Member(u.v.f["data"], "ticket").k # "str"
         \/ Member(u.v.f["data"], "CSRFPreventionToken").k # "str"

\* C3: a Login whose Post returned a 2xx response with such a body returns
\* an error to its caller: it neither succeeds nor panics.
C3_MalformedIsError ==
  [][\A t \in Threads :
       ( /\ kind[t] = "Login" /\ pc[t] = "done" /\ pc'[t] = "idle"
         /\ doRes[t].resp.present
         /\ doRes[t].resp.StatusCode \in 200..299
         /\ MissingTicketFields(doRes[t].resp.Body.data) )
       => (ret'[t].outcome = "returned" /\ ret'[t].err # NoErr)]_vars

\* C4: a request with a control character in a header value never reaches the
\* underlying transport, and Do returns an error for it, whichever client the
\* Session has.
C4_ValidatedBeforeTransport ==
  \A t \in Threads :
    (pc[t] \in {"drain", "done"} /\ HasControlChar(ReqHeader(t))) =>
      /\ ~wire[t].reached
      /\ pc[t] = "done" => doRes[t].err # NoErr

\* a range over h in the order o meets k as its first offending key
FailsOn(h, o, k) ==
  \E i \in DOMAIN o : o[i] = k /\ KeyOffends(h, k) /\ \A j \in 1..(i - 1) : ~KeyOffends(h, o[j])

\* the error texts validateHeader gives for h over the orders os in which it
\* fails on k
TextsOn(h, os, k) == {validateHeader(h, o).text : o \in {p \in os : FailsOn(h, p, k)}}

\* the mappings that differ from h only in the values of its offending keys
ValueLists == {<<ValOK>>, <<ValCtl>>, <<ValDel, ValOK>>}
Variants(h) ==
  LET off == {k \in DOMAIN h : KeyOffends(h, k)}
  IN  {[k \in DOMAIN h |-> IF k \in off THEN f[k] ELSE h[k]] : f \in [off -> ValueLists]}

\* C5: on the header of a request about to be sent, validateHeader fails
\* exactly when a value holds a character in 0..31 or 127, its error text
\* holds none of the offending values, and the text is the same for every
\* mapping that differs only in values and fails on the same key; the error
\* that the secure transport has returned holds none of the offending values
\* either.
C5_ValidateHeader ==
  \A t \in Threads :
    /\ (pc[t] = "done" /\ doRes[t].err.kind = "HeaderValidation") =>
         \A k \in DOMAIN ReqHeader(t) : \A i \in DOMAIN ReqHeader(t)[k] :
           ValueOffends(ReqHeader(t)[k][i])
             => ~Contains(doRes[t].err.text, ReqHeader(t)[k][i])
    /\ pc[t] = "send" =>
      LET h    == ReqHeader(t)
          os   == Orders(h)
          errs == {validateHeader(h, o) : o \in os}
      IN  /\ \A e \in errs : (e # NoErr) <=> HasControlChar(h)
          /\ \A e \in errs : \A k \in DOMAIN h : \A i \in DOMAIN h[k] :
               ValueOffends(h[k][i]) => ~Contains(e.text, h[k][i])
          /\ \A k \in DOMAIN h : KeyOffends(h, k) =>
               /\ Cardinality(TextsOn(h, os, k)) = 1
               /\ \A h2 \in Variants(h) :
                    KeyOffends(h2, k) => TextsOn(h2, os, k) = TextsOn(h, os, k)

\* the secure transport has rejected a request with two offending keys
C5_Witness ==
  \E t \in Threads :
    /\ pc[t] = "done"
    /\ doRes[t].err.kind = "HeaderValidation"
    /\ Cardinality({k \in DOMAIN ReqHeader(t) : KeyOffends(ReqHeader(t), k)}) = 2

C7_StreamClosed ==
  \A t \in Threads :
    (pc[t] = "done" /\ stream[t] # "none") => stream[t] = "closed"

\* C8: Do returns a nil error exactly when the transport delivered the
\* response and the status code is in 200..299; for another status code it
\* returns the response with its buffered body and an error whose message is
\* the status line; when the transport fails it returns an error and no
\* response.  (A body stream that fails is taken as a failure of the
\* transport.)
C8_DoResult ==
  \A t \in Threads :
    (pc[t] = "done" /\ doRes[t].err.kind # "NewRequest") =>
      LET delivered == stream[t] # "none" /\ ~tres[t].readFails
          success   == tres[t].StatusCode \in 200..299
      IN  /\ (doRes[t].err = NoErr) <=> (delivered /\ success)
          /\ (delivered /\ ~success) =>
               /\ doRes[t].err.text = tres[t].Status
               /\ doRes[t].resp.present
               /\ ReadAll(doRes[t].resp.Body) = tres[t].body
          /\ ~delivered => (doRes[t].err # NoErr /\ ~doRes[t].resp.present)

\* the ticket case of C9: with no token and a ticket, the request NewRequest
\* has built carries the ticket's Authorization and the CSRF token together
TicketHeaders(t) ==
  (pc[t] = "built" /\ AuthToken = Empty /\ AuthTicket # Empty) =>
    /\ {"Authorization", "CSRFPreventionToken"} \subseteq DOMAIN ReqHeader(t)
    /\ ReqHeader(t)["Authorization"] = <<PVEAuthCookie \o AuthTicket>>
    /\ ReqHeader(t)["CSRFPreventionToken"] = <<CsrfToken>>

\* C9: the ticket case, and with neither credential the request NewRequest
\* has built carries no Authorization and no CSRFPreventionToken header.
C9_AuthHeaders ==
  \A t \in Threads :
    /\ TicketHeaders(t)
    /\ (pc[t] = "built" /\ AuthToken = Empty /\ AuthTicket = Empty) =>
         DOMAIN ReqHeader(t) \cap {"Authorization", "CSRFPreventionToken"} = {}

\* C9 as amended: the ticket case, and with neither credential NewRequest
\* leaves the request's mapping as the headers argument gave it (empty for
\* nil), so that it holds a credential header only if the argument did.
C9_AuthHeadersAdded ==
  /\ [](\A t \in Threads : TicketHeaders(t))
  /\ [][\A t \in Threads :
          (pc[t] = "new" /\ pc'[t] = "built" /\ AuthToken = Empty /\ AuthTicket = Empty)
            => ReqHeader(t)' = IF hdrRef[t] = "nil" THEN NoHeader ELSE ReqHeader(t)]_vars

\* NewRequest has built a request for a Session that holds only a ticket
C9_Witness ==
  \E t \in Threads :
    /\ pc[t] = "built" /\ AuthToken = Empty /\ AuthTicket # Empty
    /\ "CSRFPreventionToken" \in DOMAIN ReqHeader(t)

\* the body text is not an object whose data is an object with a result
EnvelopeWrong(text) ==
  LET u == Unmarshal(text)
  IN  \/ ~u.ok
      \/ u.v.k # "obj"
      \/ "data" \notin DOMAIN u.v.f
      \/ u.v.f["data"].k # "obj"
      \/ "result" \notin DOMAIN u.v.f["data"].f

\* C10: TypedResponse on a body whose outer shape is wrong fails with the
\* envelope error, not with the result error and not with success.
C10_EnvelopeError ==
  \A t \in Threads :
    ( /\ decoded[t].op = "TypedResponse"
      /\ decoded[t].hasBody
      /\ EnvelopeWrong(decoded[t].body) )
      => decoded[t].err.kind = "Envelope"

\* C11: ResponseJSON and TypedResponse on a response whose Body is nil return
\* no error and leave the destination as it was (for ResponseJSON, the map it
\* returns is the nil map it started from).
C11_NoBodyNoOp ==
  \A t \in Threads :
    (decoded[t].op # "none" /\ ~decoded[t].hasBody) =>
      /\ decoded[t].err = NoErr
      /\ decoded[t].X = decoded[t].X0
      /\ decoded[t].jbody = JNull

\* strings.Split(text, c) for a one-character separator
RECURSIVE SplitOn(_, _)
SplitOn(text, c) ==
  IF \A i \in DOMAIN text : text[i] # c THEN <<text>>
  ELSE LET i == CHOOSE x \in DOMAIN text :
                  text[x] = c /\ \A y \in 1..(x - 1) : text[y] # c
       IN  <<SubSeq(text, 1, i - 1)>> \o SplitOn(SubSeq(text, i + 1, Len(text)), c)

\* the "key=value" segments of an encoded form, and the two sides of one
FormSegments(body) == IF body = Empty THEN << >> ELSE SplitOn(body, 38)
SegKey(seg) == Head(SplitOn(seg, 61))
FormKeys(body) == {SegKey(FormSegments(body)[i]) : i \in DOMAIN FormSegments(body)}

\* the encoders that return the encoded bytes
BodyFns == {"ParamsToBody", "ParamsToBodyWithEmpty", "ParamsToBodyWithAllEmpty"}

\* C12: whatever encoder was called on whatever mapping, every key with a
\* boolean value is in the output with the single value "1" for true and "0"
\* for false, and every key of the output has exactly one value; in the
\* encoded bytes every such key has exactly one "key=value" segment, which
\* for a boolean is "key=1" or "key=0".
C12_BoolAsDigit ==
  enc.fn # "none" =>
    LET bools  == {k \in DOMAIN enc.params : enc.params[k].k = "bool"}
        digit(k) == IF enc.params[k].b THEN <<49>> ELSE <<48>>
        segs   == FormSegments(enc.body)
    IN  /\ \A k \in bools : k \in DOMAIN enc.vals /\ enc.vals[k] = <<digit(k)>>
        /\ \A k \in DOMAIN enc.vals : Len(enc.vals[k]) = 1
        /\ enc.fn \in BodyFns =>
             /\ \A k \in DOMAIN enc.vals :
                  Cardinality({i \in DOMAIN segs : SegKey(segs[i]) = QueryEscape(k)}) = 1
             /\ \A k \in bools :
                  \E i \in DOMAIN segs : segs[i] = QueryEscape(k) \o <<61>> \o digit(k)

\* ParamsToBody has encoded a mapping with a true and a false value
C12_Witness ==
  /\ enc.fn = "ParamsToBody"
  /\ \E k1, k2 \in DOMAIN enc.params :
       enc.params[k1] = PBool(TRUE) /\ enc.params[k2] = PBool(FALSE)
  /\ enc.body = <<97,61,49,38,98,37,50,54,61,48>>

\* the keys the claim C13 says the output has
ExpectedKeys(e) ==
  IF e.allowEmpty THEN DOMAIN e.params
  ELSE {k \in DOMAIN e.params :
          \/ EncodeValue(e.params[k]) # Empty
          \/ \E i \in DOMAIN e.allowedEmpty : e.allowedEmpty[i] = k}

\* C13: under the default and the allow-listed encodings a key is in the
\* output exactly when its encoded value is not empty or the key is in the
\* allow-list, and under the allow-all-empty encoding the keys of the output
\* are the keys of the input; the same holds of the keys of the encoded bytes.
C13_KeysKept ==
  enc.fn # "none" =>
    /\ DOMAIN enc.vals = ExpectedKeys(enc)
    /\ enc.fn \in BodyFns =>
         FormKeys(enc.body) = {QueryEscape(k) : k \in ExpectedKeys(enc)}

\* an allow-listed encoding has kept one key with an empty value and dropped
\* another
C13_Witness ==
  /\ enc.fn = "ParamsToBodyWithEmpty"
  /\ DOMAIN enc.params = ParamKeys
  /\ \A k \in ParamKeys : enc.params[k] = PStr(Empty)
  /\ DOMAIN enc.vals = { <<97>> }
  /\ enc.body = <<97,61>>

\* C14: the request the transport was handed has, for every name in the
\* Session's default headers, the Session's value; and Do leaves every name
\* that is not in the defaults as it was when Request called Do, after
\* NewRequest and Request had set their headers.
C14_SessionHeadersWin ==
  /\ [](\A t \in Threads :
          wire[t].reached =>
            \A k \in DOMAIN Headers :
              k \in DOMAIN wire[t].hdr /\ wire[t].hdr[k] = Headers[k])
  /\ [][\A t \in Threads :
          (pc[t] = "built" /\ pc'[t] = "send") =>
            LET before == Put(ReqHeader(t), "Accept", <<ApplicationJSON>>)
                after  == ReqHeader(t)'
            IN  /\ DOMAIN after = (DOMAIN before) \cup (DOMAIN Headers)
                /\ \A k \in (DOMAIN after) \ (DOMAIN Headers) : after[k] = before[k]]_vars

\* the transport was handed a request of a token Session whose Accept is the
\* Session's default, not the value Request had set, and whose Authorization,
\* a name the defaults do not have, is the one NewRequest set
C14_Witness ==
  \E t \in Threads :
    /\ wire[t].reached
    /\ hdrRef[t] = "own"
    /\ AuthToken # Empty
    /\ "Accept" \in DOMAIN Headers
    /\ "Authorization" \notin DOMAIN Headers
    /\ wire[t].hdr["Accept"] = <<ValOK>>
    /\ wire[t].hdr["Authorization"] = <<PVEAPIToken \o AuthToken>>

\* C15: on a Session with no static token, a request that reaches the
\* transport after a Login has succeeded carries the ticket and the CSRF
\* token of the most recent Login that succeeded.
C15_LatestTicket ==
  \A t \in Threads :
    (wire[t].reached /\ AuthToken = Empty /\ issued.ticket # Empty) =>
      /\ {"Authorization", "CSRFPreventionToken"} \subseteq DOMAIN wire[t].hdr
      /\ wire[t].hdr["Authorization"] = <<PVEAuthCookie \o issued.ticket>>
      /\ wire[t].hdr["CSRFPreventionToken"] = <<issued.csrf>>

\* C16: when a method that issues a request returns, Headers is what it was
\* when the method was entered.
C16_HeadersKept ==
  [][\A t \in Threads :
       (pc[t] # "idle" /\ pc'[t] = "idle") => Headers' = entryHeaders[t]]_vars

\* C17: a Login that does not return a nil error leaves AuthTicket, CsrfToken
\* and AuthToken as they were, so that AuthTicket and CsrfToken change only
\* together, in a Login that succeeds.
C17_FailedLoginKeepsCredentials ==
  [][\A t \in Threads :
       ( /\ kind[t] = "Login" /\ pc[t] = "done" /\ pc'[t] = "idle"
         /\ ~(ret'[t].outcome = "returned" /\ ret'[t].err = NoErr) )
       => /\ AuthTicket' = AuthTicket
          /\ CsrfToken' = CsrfToken
          /\ AuthToken' = AuthToken]_vars

\* the step is one in which the Login of t logs or dispatches its request:
\* Do's log of the request, the client's Do, or Do's log of the response
LogsOrDispatches(t) ==
  /\ kind[t] = "Login"
  /\ \/ pc[t] = "built" /\ pc'[t] = "send"
     \/ pc[t] = "send" /\ pc'[t] # "send"
     \/ pc[t] = "drain" /\ pc'[t] = "done"

\* C18: while Logins run concurrently, Debug is false at every step in which
\* one of them logs or dispatches its request, and when the last of them
\* returns Debug is what it was before the first of them was entered.
C18_ConcurrentLogins ==
  /\ [][\A t \in Threads : LogsOrDispatches(t) => ~Debug]_vars
  /\ [][\A t \in Threads :
          ( /\ kind[t] = "Login" /\ pc[t] = "done"
            /\ \A u \in Threads : pc'[u] = "idle" )
          => Debug' = entryDebug[t]]_vars

====
